---------------------------- MODULE Spec2Model ----------------------------
(***************************************************************************)
(* Terminal input decoding of hoyeungw/pres: the streaming event decoder   *)
(* (EventsAndRaw, Events, Keys) and the line readers (read_line,           *)
(* read_passwd), run over a finite byte source; and MouseTerminal, the     *)
(* writer that brackets its output with the mouse-reporting sequences.     *)
(***************************************************************************)
EXTENDS Integers, Sequences, FiniteSets, TLC

(* ------------------------------ bounds -------------------------------- *)
\* longest enumerated input buffer
MaxLen == 3
\* most calls a caller makes on one iterator / reader
MaxPulls == 6
\* most I/O failures the byte source injects in one run
MaxErrs == 1

(* --------------------------- byte source items ------------------------ *)
\* Option<u8> = None, and the None of Iterator::next
None == -2
\* an item Some(Err(e)) of the byte iterator
Fail == -1
ESC == 27
DEL == 127

Min(a, b) == IF a < b THEN a ELSE b
Max(a, b) == IF a > b THEN a ELSE b

(* ------------------------------ events -------------------------------- *)
\* Event values, as records with one shape so that any two compare.
KeyEv(name, a) ==
    [tag |-> "Key", name |-> name, btn |-> "", a |-> a, x |-> 0, y |-> 0, bytes |-> <<>>]
MouseEv(name, btn, x, y) ==
    [tag |-> "Mouse", name |-> name, btn |-> btn, a |-> 0, x |-> x, y |-> y, bytes |-> <<>>]
Unsupported(bytes) ==
    [tag |-> "Unsupported", name |-> "", btn |-> "", a |-> 0, x |-> 0, y |-> 0, bytes |-> bytes]
NoEvent ==
    [tag |-> "None", name |-> "", btn |-> "", a |-> 0, x |-> 0, y |-> 0, bytes |-> <<>>]

(* ------------------------------- UTF-8 -------------------------------- *)
IsCont(b) == b >= 128 /\ b <= 191
\* length of the encoding a lead byte announces, 0 for a byte that leads none
Utf8Len(b) ==
    IF b < 128 THEN 1
    ELSE IF b >= 194 /\ b <= 223 THEN 2
    ELSE IF b >= 224 /\ b <= 239 THEN 3
    ELSE IF b >= 240 /\ b <= 244 THEN 4
    ELSE 0
\* s is the encoding of exactly one scalar value
IsUtf8Char(s) ==
    /\ Len(s) >= 1
    /\ Utf8Len(s[1]) = Len(s)
    /\ \A i \in 2..Len(s) : IsCont(s[i])
    /\ (s[1] = 224 => s[2] >= 160)
    /\ (s[1] = 237 => s[2] <= 159)
    /\ (s[1] = 240 => s[2] >= 144)
    /\ (s[1] = 244 => s[2] <= 143)
CodePoint(s) ==
    IF Len(s) = 1 THEN s[1]
    ELSE IF Len(s) = 2 THEN (s[1] - 192) * 64 + (s[2] - 128)
    ELSE IF Len(s) = 3 THEN (s[1] - 224) * 4096 + (s[2] - 128) * 64 + (s[3] - 128)
    ELSE (s[1] - 240) * 262144 + (s[2] - 128) * 4096 + (s[3] - 128) * 64 + (s[4] - 128)
\* String::from_utf8 succeeds on s
RECURSIVE IsUtf8(_)
IsUtf8(s) ==
    IF s = <<>> THEN TRUE
    ELSE LET n == Utf8Len(s[1]) IN
         /\ n >= 1
         /\ n <= Len(s)
         /\ IsUtf8Char(SubSeq(s, 1, n))
         /\ IsUtf8(SubSeq(s, n + 1, Len(s)))

(* --------------------------- escape sequences ------------------------- *)
\* csi!(l): the Control Sequence Introducer, ESC '[', in front of l
csi(l) == <<27, 91>> \o l

(* ---------------------- the sequence grammar decoder ------------------ *)
\* A decode works on av, the items the continuation iterator would give in
\* order (bytes, or Fail for an I/O failure; past the end every next() is
\* None), and i, the number of items taken so far.  It answers
\* [ok, ev, n]: n items were taken in all.
ItemAt(av, i) == IF i >= 1 /\ i <= Len(av) THEN av[i] ELSE None
IsByte(b) == b >= 0 /\ b <= 255
Decoded(ev, n) == [ok |-> TRUE, ev |-> ev, n |-> n]
\* a failed decode after k calls of next(): a call past the end takes nothing
DecodeErr(av, k) == [ok |-> FALSE, ev |-> NoEvent, n |-> Min(k, Len(av))]
\* the first of the next k items that is no byte, 0 when all k are bytes
FirstBad(av, i, k) ==
    LET bad == {j \in 1..k : ~IsByte(ItemAt(av, i + j))}
    IN IF bad = {} THEN 0 ELSE CHOOSE j \in bad : \A j2 \in bad : j <= j2

\* one character led by byte c (already taken), continuation bytes from av
CharDecoded(s, n) ==
    IF IsUtf8Char(s) THEN [ok |-> TRUE, cp |-> CodePoint(s), n |-> n]
    ELSE [ok |-> FALSE, cp |-> 0, n |-> n]
CharOfLen(c, av, i, n, bad) ==
    IF n = 0 THEN [ok |-> FALSE, cp |-> 0, n |-> i]
    ELSE IF bad # 0 THEN [ok |-> FALSE, cp |-> 0, n |-> Min(i + bad, Len(av))]
    ELSE CharDecoded(<<c>> \o SubSeq(av, i + 1, i + n - 1), i + n - 1)
ParseUtf8Char(c, av, i) ==
    CharOfLen(c, av, i, Utf8Len(c), FirstBad(av, i, Utf8Len(c) - 1))

IsDigit(b) == b >= 48 /\ b <= 57
\* the decimal parameters of a ';'-separated parameter string; an empty field is dropped
RECURSIVE ParseParams(_, _, _, _)
ParseParams(s, i, cur, acc) ==
    IF i > Len(s) THEN (IF cur = None THEN acc ELSE Append(acc, cur))
    ELSE IF IsDigit(s[i])
         THEN ParseParams(s, i + 1, (IF cur = None THEN 0 ELSE cur * 10) + (s[i] - 48), acc)
         ELSE ParseParams(s, i + 1, None, IF cur = None THEN acc ELSE Append(acc, cur))
Params(s) == ParseParams(s, 1, None, <<>>)

\* index of the first item from i on that ends a parameter run: a byte that
\* is no digit and no ';', or an item that is no byte; Len(av)+1 past the end
RECURSIVE FinalAt(_, _)
FinalAt(av, i) ==
    IF i > Len(av) THEN i
    ELSE IF IsDigit(av[i]) \/ av[i] = 59 THEN FinalAt(av, i + 1)
    ELSE i

\* legacy X10: ESC [ M cb cx cy, coordinates biased by 32
X10Event(lo, wheel, cx, cy) ==
    IF lo = 0 THEN MouseEv("Press", IF wheel THEN "WheelUp" ELSE "Left", cx, cy)
    ELSE IF lo = 1 THEN MouseEv("Press", IF wheel THEN "WheelDown" ELSE "Middle", cx, cy)
    ELSE IF lo = 2 THEN MouseEv("Press", "Right", cx, cy)
    ELSE MouseEv("Release", "", cx, cy)
\* cb is the button byte less 32, in eight bits
X10Button(cb, cx, cy) == X10Event(cb % 4, (cb \div 64) % 2 = 1, cx, cy)
X10Bytes(av, bad) ==
    IF bad # 0 THEN DecodeErr(av, 2 + bad)
    ELSE Decoded(X10Button((av[3] + 224) % 256, Max(av[4] - 32, 0), Max(av[5] - 32, 0)), 5)
X10Mouse(av) == X10Bytes(av, FirstBad(av, 2, 3))

\* SGR extended: ESC [ < Pb ; Px ; Py M (press) or m (release)
SgrButton(cb) ==
    IF cb = 0 THEN "Left" ELSE IF cb = 1 THEN "Middle"
    ELSE IF cb = 2 THEN "Right" ELSE IF cb = 64 THEN "WheelUp"
    ELSE IF cb = 65 THEN "WheelDown" ELSE ""
SgrEvent(av, f, fin, cb, btn, x, y) ==
    IF cb = 32 THEN Decoded(MouseEv("Hold", "", x, y), f)
    ELSE IF cb = 3 \/ (btn # "" /\ fin = 109) THEN Decoded(MouseEv("Release", "", x, y), f)
    ELSE IF btn # "" THEN Decoded(MouseEv("Press", btn, x, y), f)
    ELSE DecodeErr(av, f)
SgrParams(av, f, fin, ps) ==
    IF ~(fin \in {77, 109}) \/ Len(ps) < 3 THEN DecodeErr(av, f)
    ELSE SgrEvent(av, f, fin, ps[1], SgrButton(ps[1]), ps[2], ps[3])
SgrFinal(av, f) == SgrParams(av, f, ItemAt(av, f), Params(SubSeq(av, 3, f - 1)))
SgrMouse(av) == SgrFinal(av, FinalAt(av, 3))

\* numeric CSI: ESC [ n ~ (editing and function keys), ESC [ cb ; x ; y M (mouse)
NumericMouse(av, f, cb, x, y) ==
    IF cb = 32 THEN Decoded(MouseEv("Press", "Left", x, y), f)
    ELSE IF cb = 33 THEN Decoded(MouseEv("Press", "Middle", x, y), f)
    ELSE IF cb = 34 THEN Decoded(MouseEv("Press", "Right", x, y), f)
    ELSE IF cb = 35 THEN Decoded(MouseEv("Release", "", x, y), f)
    ELSE IF cb = 64 THEN Decoded(MouseEv("Hold", "", x, y), f)
    ELSE IF cb \in {96, 97} THEN Decoded(MouseEv("Press", "WheelUp", x, y), f)
    ELSE DecodeErr(av, f)
TildeKey(av, f, v) ==
    IF v \in {1, 7} THEN Decoded(KeyEv("Home", 0), f)
    ELSE IF v = 2 THEN Decoded(KeyEv("Insert", 0), f)
    ELSE IF v = 3 THEN Decoded(KeyEv("Delete", 0), f)
    ELSE IF v \in {4, 8} THEN Decoded(KeyEv("End", 0), f)
    ELSE IF v = 5 THEN Decoded(KeyEv("PageUp", 0), f)
    ELSE IF v = 6 THEN Decoded(KeyEv("PageDown", 0), f)
    ELSE IF v >= 11 /\ v <= 15 THEN Decoded(KeyEv("F", v - 10), f)
    ELSE IF v >= 17 /\ v <= 21 THEN Decoded(KeyEv("F", v - 11), f)
    ELSE IF v >= 23 /\ v <= 24 THEN Decoded(KeyEv("F", v - 12), f)
    ELSE DecodeErr(av, f)
NumericParams(av, f, fin, ps) ==
    IF fin = 77 /\ Len(ps) = 3 THEN NumericMouse(av, f, ps[1], ps[2], ps[3])
    ELSE IF fin = 126 /\ Len(ps) = 1 THEN TildeKey(av, f, ps[1])
    ELSE DecodeErr(av, f)
NumericFinal(av, f) == NumericParams(av, f, ItemAt(av, f), Params(SubSeq(av, 2, f - 1)))
NumericCsi(av) == NumericFinal(av, FinalAt(av, 2))

\* after ESC '[': av[1] = '[' is taken, the sequence continues at av[2]
CsiFinal(av, c) ==
    IF c = 68 THEN Decoded(KeyEv("Left", 0), 2)
    ELSE IF c = 67 THEN Decoded(KeyEv("Right", 0), 2)
    ELSE IF c = 65 THEN Decoded(KeyEv("Up", 0), 2)
    ELSE IF c = 66 THEN Decoded(KeyEv("Down", 0), 2)
    ELSE IF c = 72 THEN Decoded(KeyEv("Home", 0), 2)
    ELSE IF c = 70 THEN Decoded(KeyEv("End", 0), 2)
    ELSE IF c = 77 THEN X10Mouse(av)
    ELSE IF c = 60 THEN SgrMouse(av)
    ELSE IF IsDigit(c) THEN NumericCsi(av)
    ELSE DecodeErr(av, 2)
ParseCsi(av) == CsiFinal(av, ItemAt(av, 2))

\* ESC 'O' v: the SS3 function keys
Ss3Key(av, v) ==
    IF v >= 80 /\ v <= 83 THEN Decoded(KeyEv("F", 1 + v - 80), 2)
    ELSE DecodeErr(av, 2)

\* a character decoded after an optional ESC: Char or Alt
CharKey(name, ch) ==
    IF ch.ok THEN Decoded(KeyEv(name, ch.cp), ch.n)
    ELSE [ok |-> FALSE, ev |-> NoEvent, n |-> ch.n]

\* after ESC, with c the next item of the iterator
EscSequence(av, c) ==
    IF c = None THEN Decoded(KeyEv("Esc", 0), 0)
    ELSE IF c = Fail THEN DecodeErr(av, 1)
    ELSE IF c = 79 THEN Ss3Key(av, ItemAt(av, 2))
    ELSE IF c = 91 THEN ParseCsi(av)
    ELSE CharKey("Alt", ParseUtf8Char(c, av, 1))

\* event::parse_event(item, iter): one event from a leading byte and the
\* continuation items av
event_parse_event(item, av) ==
    IF item = ESC THEN EscSequence(av, ItemAt(av, 1))
    ELSE IF item \in {9, 10, 13} THEN Decoded(KeyEv("Char", item), 0)
    ELSE IF item = DEL THEN Decoded(KeyEv("Backspace", 0), 0)
    ELSE IF item >= 1 /\ item <= 26 THEN Decoded(KeyEv("Ctrl", item - 1 + 97), 0)
    ELSE IF item = 0 THEN Decoded(KeyEv("Null", 0), 0)
    ELSE CharKey("Char", ParseUtf8Char(item, av, 0))

(* ------------------------------ the state ------------------------------ *)
VARIABLES
    input,      \* the bytes the source holds, fixed
    srcKind,    \* "slice": an in-memory buffer; "stream": any other reader
    api,        \* what the caller built on the source
    pos,        \* per decoder: bytes taken from its source so far
    leftover,   \* per decoder: EventsAndRaw.leftover, None or a byte
    pulls,      \* per decoder: what each inner call returned, with its circumstances
    out,        \* per decoder: what each call returned to the caller
    errs,       \* I/O failures injected so far, by the source or by into_raw_mode
    life,       \* the MouseTerminal value: "none", "live", "dropped", or panicked
    term,       \* what the wrapped writer W has accepted, in order
    calls       \* what the caller asked of the MouseTerminal, and got back

\* the MouseTerminal and its writer
termVars == <<life, term, calls>>
vars == <<input, srcKind, api, pos, leftover, pulls, out, errs, termVars>>

\* the Ok items among s: the bytes the inspect closure pushes
OkBytes(s) == SelectSeq(s, IsByte)

\* source.bytes() from position p: the items successive next() calls give.
\* A read issued at a position in fail fails once and succeeds when retried.
RECURSIVE SourceItems(_, _, _)
SourceItems(buf, p, fail) ==
    IF p \in fail THEN <<Fail>> \o SourceItems(buf, p, fail \ {p})
    ELSE IF p >= Len(buf) THEN <<>>
    ELSE <<buf[p + 1]>> \o SourceItems(buf, p + 1, fail)

\* the positions whose failure was met while taking the first n of the items from p
FailsHit(av, p, n) ==
    {p + Len(OkBytes(SubSeq(av, 1, j - 1))) : j \in {k \in 1..n : av[k] = Fail}}

\* a failed decode reported with the leading byte alone
UnsupportedOrLead(d, buf) ==
    [ev |-> IF d.ok THEN d.ev ELSE Unsupported(<<buf[1]>>), raw |-> buf, n |-> d.n]

\* parse_event of events.rs, given d, the decoder's answer: every Ok byte the
\* decoder took is in buf, and a failed decode becomes Unsupported(buf)
UnsupportedOr(d, buf) ==
    [ev |-> IF d.ok THEN d.ev ELSE Unsupported(buf), raw |-> buf, n |-> d.n]
\* buf filled by the closure first, the leading byte pushed after the decode
ParseEventBufLeadLast(item, av, d) == UnsupportedOr(d, OkBytes(SubSeq(av, 1, d.n)) \o <<item>>)

ParseEventBuf(item, av, d) == UnsupportedOr(d, <<item>> \o OkBytes(SubSeq(av, 1, d.n)))
parse_event(item, av) == ParseEventBuf(item, av, event_parse_event(item, av))

\* a read into a one-byte buffer
ReadTwoOneByte(buf, p, short) == IF Len(buf) - p = 0 THEN 0 ELSE 1

\* what source.read(&mut [0u8; 2]) returns at position p: the number of bytes
ReadTwo(buf, p, short) ==
    IF Len(buf) - p = 0 THEN 0
    ELSE IF Len(buf) - p = 1 \/ p \in short THEN 1
    ELSE 2

PullResult(kind, ev, raw, path, p1, lo1, fail1) ==
    [kind |-> kind, ev |-> ev, raw |-> raw, path |-> path, pos |-> p1, lo |-> lo1, fail |-> fail1]

\* the Ok(1) branch
OneParsed(p, fail, av, r) ==
    PullResult("ev", r.ev, r.raw, "read1", p + Len(r.raw), None,
               fail \ FailsHit(av, p + 1, r.n))
\* the byte of a one-byte read decoded on its own, the source not consulted
OneItemsAlone(b, p, fail, av) == OneParsed(p, fail, av, parse_event(b, <<>>))

OneItems(b, p, fail, av) == OneParsed(p, fail, av, parse_event(b, av))
\* the Ok(1) branch without its special case for a lone ESC
NextOneNoEsc(buf, p, fail) ==
    OneItems(buf[p + 1], p, fail, SourceItems(buf, p + 1, fail))

NextOne(buf, p, fail) ==
    IF buf[p + 1] = ESC
    THEN PullResult("ev", KeyEv("Esc", 0), <<ESC>>, "read1", p + 1, None, fail)
    ELSE OneItems(buf[p + 1], p, fail, SourceItems(buf, p + 1, fail))

\* the second byte of the read is dropped whether or not the decode took it
KeepLeftoverDropped(second, n) == None

\* buf[1] kept as the leftover whether or not the decode took it
KeepLeftoverAlways(second, n) == second

\* what option_iter.next() gives after the decode: buf[1] unless it was taken
KeepLeftover(second, n) == IF n = 0 THEN second ELSE None

\* the Ok(2) branch: buf[1] is spliced in front of source.bytes()
TwoParsed(second, p, fail, src, r) ==
    PullResult("ev", r.ev, r.raw, "read2", p + Max(Len(r.raw), 2),
               KeepLeftover(second, r.n),
               fail \ FailsHit(src, p + 2, Max(r.n - 1, 0)))
\* the decode run on source.bytes() alone, buf[1] not spliced in front
TwoItemsUnspliced(first, second, p, fail, src) ==
    TwoParsed(second, p, fail, src, parse_event(first, src))

TwoItems(first, second, p, fail, src) ==
    TwoParsed(second, p, fail, src, parse_event(first, <<second>> \o src))
NextTwo(buf, p, fail) ==
    TwoItems(buf[p + 1], buf[p + 2], p, fail, SourceItems(buf, p + 2, fail))

\* the match with buf[1] kept as the leftover whatever the count read:
\* after Ok(0) that is the zero the buffer was created with
ReadMatchStale(buf, p, fail, nread) ==
    IF nread = 0 THEN PullResult("eof", NoEvent, <<>>, "read0", p, 0, fail)
    ELSE IF nread = 1 THEN NextOne(buf, p, fail)
    ELSE NextTwo(buf, p, fail)

\* the match on source.read(&mut buf), nread bytes having been read
ReadMatch(buf, p, fail, nread) ==
    IF nread = 0 THEN PullResult("eof", NoEvent, <<>>, "read0", p, None, fail)
    ELSE IF nread = 1 THEN NextOne(buf, p, fail)
    ELSE NextTwo(buf, p, fail)

\* the leftover branch of EventsAndRaw::next: self.leftover = None, then
\* parse_event(c, source.bytes()), whose answer is r
LeftoverParsed(p, fail, av, r) ==
    PullResult("ev", r.ev, r.raw, "leftover", p + Len(r.raw) - 1, None,
               fail \ FailsHit(av, p, r.n))
LeftoverItems(p, lo, fail, av) == LeftoverParsed(p, fail, av, parse_event(lo, av))
\* the leftover cleared and the call going on to read, the byte forgotten
NextLeftoverForgotten(buf, p, lo, fail) ==
    IF p \in fail
    THEN PullResult("err", NoEvent, <<>>, "readErr", p, None, fail \ {p})
    ELSE ReadMatch(buf, p, fail, ReadTwo(buf, p, {}))
\* the leftover branch reading one byte ahead of the decode, as the Ok(2) branch does
NextLeftoverReadAhead(buf, p, lo, fail) ==
    IF p < Len(buf) /\ ~(p \in fail)
    THEN TwoItems(lo, buf[p + 1], p - 1, fail, SourceItems(buf, p + 1, fail))
    ELSE LeftoverItems(p, lo, fail, SourceItems(buf, p, fail))
NextLeftover(buf, p, lo, fail) == LeftoverItems(p, lo, fail, SourceItems(buf, p, fail))

\* the read made before the leftover is looked at: at the end of the source
\* the call returns end-of-stream and the leftover is lost
EventsAndRaw_nextReadFirst(buf, p, lo, short, fail) ==
    IF lo # None /\ p < Len(buf) THEN NextLeftover(buf, p, lo, fail)
    ELSE IF p \in fail
         THEN PullResult("err", NoEvent, <<>>, "readErr", p, None, fail \ {p})
    ELSE ReadMatch(buf, p, fail, ReadTwo(buf, p, short))

\* EventsAndRaw::next on a decoder at position p holding leftover lo
EventsAndRaw_next(buf, p, lo, short, fail) ==
    IF lo # None THEN NextLeftover(buf, p, lo, fail)
    ELSE IF p \in fail
         THEN PullResult("err", NoEvent, <<>>, "readErr", p, None, fail \ {p})
    ELSE ReadMatch(buf, p, fail, ReadTwo(buf, p, short))

(* ------------------------------ projections ---------------------------- *)
\* what a call hands to its caller
Item(kind, ev, raw) == [kind |-> kind, ev |-> ev, raw |-> raw]
\* what one inner call did: its result and the circumstances it ran in
PullRec(r, p0, lo0, fail0) ==
    [kind |-> r.kind, ev |-> r.ev, raw |-> r.raw, path |-> r.path,
     p0 |-> p0, lo0 |-> lo0, p1 |-> r.pos, lo1 |-> r.lo,
     nfail |-> Cardinality(fail0 \ r.fail)]

\* Events::next: the inner result without its raw bytes
Events_next(r) == Item(r.kind, r.ev, <<>>)

\* a loop that returns whatever the first inner call gives
KeysReturnsAny(r) == TRUE

\* one turn of the loop of Keys::next on the inner result r: TRUE to return
KeysReturns(r) == r.kind # "ev" \/ r.ev.tag = "Key"

\* Keys::next: pull until a key, a failure or the end; acc collects the inner calls
RECURSIVE Keys_next(_, _, _, _, _, _)
KeysMatch(buf, short, acc, r) ==
    IF KeysReturns(r)
    THEN [res |-> Events_next(r), pos |-> r.pos, lo |-> r.lo, fail |-> r.fail, acc |-> acc]
    ELSE Keys_next(buf, r.pos, r.lo, short, r.fail, acc)
KeysPulled(buf, p, lo, short, fail, acc, r) ==
    KeysMatch(buf, short, Append(acc, PullRec(r, p, lo, fail)), r)
Keys_next(buf, p, lo, short, fail, acc) ==
    KeysPulled(buf, p, lo, short, fail, acc, EventsAndRaw_next(buf, p, lo, short, fail))

(* ------------------------------- read_line ------------------------------ *)
\* a buffer that keeps its last byte at a backspace
PopNothing(s) == s

Pop(s) == IF s = <<>> THEN s ELSE SubSeq(s, 1, Len(s) - 1)

LineResult(kind, raw, p1, fail1) ==
    [kind |-> kind, ev |-> NoEvent, raw |-> raw, path |-> "read_line",
     pos |-> p1, lo |-> None, fail |-> fail1]

\* String::from_utf8(buf), its error mapped to InvalidData
FinishLine(line, p1, fail1) ==
    IF IsUtf8(line) THEN LineResult("line", line, p1, fail1)
    ELSE LineResult("invalid", <<>>, p1, fail1)

\* ETX not among the aborting bytes
IsAbortNoEtx(c) == c \in {0, 4}

\* the bytes that abort the prompt: NUL, ETX, EOT
IsAbort(c) == c \in {0, 3, 4}
\* the bytes that complete the input: '\n', '\r'
IsLineEnd(c) == c \in {10, 13}

\* read_line: the loop over self.bytes(), line is buf
RECURSIVE read_line(_, _, _, _)
read_line(buf, p, fail, line) ==
    IF p \in fail THEN LineResult("err", <<>>, p, fail \ {p})
    ELSE IF p >= Len(buf) THEN FinishLine(line, p, fail)
    ELSE IF IsAbort(buf[p + 1]) THEN LineResult("none", <<>>, p + 1, fail)
    ELSE IF buf[p + 1] = DEL THEN read_line(buf, p + 1, fail, Pop(line))
    ELSE IF IsLineEnd(buf[p + 1]) THEN FinishLine(line, p + 1, fail)
    ELSE read_line(buf, p + 1, fail, Append(line, buf[p + 1]))

\* writer.into_raw_mode(): an io::Result
IntoRawMode == {"ok", "err"}
\* the ? on a failed into_raw_mode(): the error is returned, nothing is read
RawModeFailed(p, fail) ==
    [kind |-> "err", ev |-> NoEvent, raw |-> <<>>, path |-> "into_raw_mode",
     pos |-> p, lo |-> None, fail |-> fail]
\* read_passwd: raw mode on the writer, then read_line
read_passwd(buf, p, fail, raw) ==
    IF raw = "err" THEN RawModeFailed(p, fail) ELSE read_line(buf, p, fail, <<>>)

(* ----------------------------- MouseTerminal ---------------------------- *)
\* most calls a caller makes on one MouseTerminal
MaxCalls == 2

\* "\x1b[?1000h\x1b[?1002h\x1b[?1015h\x1b[?1006h"
ENTER_MOUSE_SEQUENCE ==
    csi(<<63, 49, 48, 48, 48, 104>> \o <<27, 91, 63, 49, 48, 48, 50, 104>>
            \o <<27, 91, 63, 49, 48, 49, 53, 104>> \o <<27, 91, 63, 49, 48, 48, 54, 104>>)

\* the modes reset in the order they were set
ExitSequenceForward ==
    csi(<<63, 49, 48, 48, 48, 108>> \o <<27, 91, 63, 49, 48, 48, 50, 108>>
            \o <<27, 91, 63, 49, 48, 49, 53, 108>> \o <<27, 91, 63, 49, 48, 48, 54, 108>>)

\* "\x1b[?1006l\x1b[?1015l\x1b[?1002l\x1b[?1000l"
EXIT_MOUSE_SEQUENCE ==
    csi(<<63, 49, 48, 48, 54, 108>> \o <<27, 91, 63, 49, 48, 49, 53, 108>>
            \o <<27, 91, 63, 49, 48, 48, 50, 108>> \o <<27, 91, 63, 49, 48, 48, 48, 108>>)

\* what W records of a write of bytes it accepted, and of a flush
WriteRec(bytes) == [op |-> "write", bytes |-> bytes]
FlushRec == [op |-> "flush", bytes |-> <<>>]
\* W.write(buf) answering ret: Ok(ret), the first ret bytes accepted, or Err
Accepted(buf, ret) == IF ret > 0 THEN <<WriteRec(SubSeq(buf, 1, ret))>> ELSE <<>>
\* W.write_all(buf) that got k bytes accepted: all of buf, or fewer and Err
write_all(buf, k) == Accepted(buf, k)
\* W.flush() answering ret: Ok(()) is 0
Flushed(ret) == IF ret = 0 THEN <<FlushRec>> ELSE <<>>
\* one call of the caller and its answer
CallRec(op, buf, ret) == [op |-> op, buf |-> buf, ret |-> ret]

\* the buffers a caller writes: "a", "ab"
WriteBufs == {<<97>>, <<97, 98>>}
\* the answers of W.write(buf)
WriteAnswers(buf) == {Fail} \cup (0..Len(buf))

\* no MouseTerminal has been made
NoMouseTerminal ==
    /\ life = "none"
    /\ term = <<>>
    /\ calls = <<>>

(* --------------------------------- inputs ------------------------------- *)
SeqsUpTo(A, n) == UNION {[1..k -> A] : k \in 0..n}
\* ESC, '[', 'D', 'a', and 0xC3, which leads a two-byte character
EventAlphabet == {27, 91, 68, 97, 195}
\* 'a', DEL, '\n', ETX, and 0xC3
LineAlphabet == {97, 127, 10, 3, 195}
\* b"\x1Bayo\x7F\x1B[D" of test_keys
TestKeys == <<27, 97, 121, 111, 127, 27, 91, 68>>
\* b"\x1B[\x00b", the head of the input of test_events
TestUnsupported == <<27, 91, 0, 98>>
TestInputs == {TestKeys, TestUnsupported}
\* "abc\x04h", "hello\rh", cut short, of test_abort and test_end; and a NUL
LineTests == {<<97, 98, 4, 104>>, <<104, 105, 13, 104>>, <<97, 0, 97>>}
\* "the\x7f first\x7f\x7f" of test_backspace
TestBackspace == <<116, 104, 101, 127, 32, 102, 105, 114, 115, 116, 127, 127>>

\* the mouse sequences of the input of test_events:
\* b"\x1B[M\x00\x22\x24\x1B[<0;2;4;M\x1B[32;2;4M\x1B[<0;2;4;m\x1B[35;2;4M"
TestMouse ==
    <<27, 91, 77, 0, 34, 36>> \o <<27, 91, 60, 48, 59, 50, 59, 52, 59, 77>>
        \o <<27, 91, 51, 50, 59, 50, 59, 52, 77>>
        \o <<27, 91, 60, 48, 59, 50, 59, 52, 59, 109>>
        \o <<27, 91, 51, 53, 59, 50, 59, 52, 77>>
\* one click of the left button at column 10, row 11, in the three dialects:
\* b"\x1B[M\x20\x2A\x2B\x1B[<0;10;11;M\x1B[32;10;11M\x1B[M\x23\x2A\x2B\x1B[<0;10;11;m"
TestClick ==
    <<27, 91, 77, 32, 42, 43>> \o <<27, 91, 60, 48, 59, 49, 48, 59, 49, 49, 59, 77>>
        \o <<27, 91, 51, 50, 59, 49, 48, 59, 49, 49, 77>>
        \o <<27, 91, 77, 35, 42, 43>>
        \o <<27, 91, 60, 48, 59, 49, 48, 59, 49, 49, 59, 109>>
MouseTests == {TestMouse, TestClick}

Apis == {"events_and_raw", "events", "keys", "read_line", "read_passwd"}
LineApis == {"read_line", "read_passwd"}
Inputs(a, k) ==
    IF a \in LineApis
    THEN SeqsUpTo(LineAlphabet, MaxLen)
             \cup (IF k = "slice" THEN LineTests \cup {TestBackspace} ELSE {})
    ELSE SeqsUpTo(EventAlphabet, MaxLen)
             \cup (IF k = "slice" THEN TestInputs \cup MouseTests ELSE {})

\* the ways the source may answer the reads of one call made at position p:
\* an in-memory buffer fills every request and never fails
ShortScripts(p) ==
    IF srcKind = "slice" THEN {{}} ELSE SUBSET (p..(Len(input) - 2))
FailScripts(p) ==
    IF srcKind = "slice" THEN {{}}
    ELSE {f \in SUBSET (p..Len(input)) : Cardinality(f) <= MaxErrs - errs}

(* ------------------------------ specification --------------------------- *)
InitDecoders(ds) ==
    /\ pos = [d \in ds |-> 0]
    /\ leftover = [d \in ds |-> None]
    /\ pulls = [d \in ds |-> <<>>]
    /\ out = [d \in ds |-> <<>>]
    /\ errs = 0

\* events_and_raw(): a fresh decoder on the source, leftover None
Init ==
    /\ api \in Apis
    /\ srcKind \in {"slice", "stream"}
    /\ input \in Inputs(api, srcKind)
    /\ InitDecoders({1})
    /\ NoMouseTerminal

Decoders == DOMAIN pos

\* one leftover slot shared by every decoder
SharedLeftover(d) == leftover[1]

\* self.leftover of decoder d
self_leftover(d) == leftover[d]

\* two fresh decoders, each with its own cursor, over one in-memory buffer
InitReplay ==
    /\ api \in Apis
    /\ srcKind = "slice"
    /\ input \in Inputs(api, srcKind)
    /\ InitDecoders({1, 2})
    /\ NoMouseTerminal

\* the call made with failure script fail returned r: the decoder's fields
\* and the histories move on.  Every failure of the script was met.
Returned(d, fail, r, recs, item) ==
    /\ r.fail = {}
    /\ errs' = errs + Cardinality(fail)
    /\ pos' = [pos EXCEPT ![d] = r.pos]
    /\ leftover' = [leftover EXCEPT ![d] = r.lo]
    /\ pulls' = [pulls EXCEPT ![d] = @ \o recs]
    /\ out' = [out EXCEPT ![d] = Append(@, item)]
    /\ UNCHANGED <<input, srcKind, api, termVars>>

EventsAndRawReturned(d, fail, r) ==
    Returned(d, fail, r, <<PullRec(r, pos[d], self_leftover(d), fail)>>, Item(r.kind, r.ev, r.raw))
EventsReturned(d, fail, r) ==
    Returned(d, fail, r, <<PullRec(r, pos[d], self_leftover(d), fail)>>, Events_next(r))
KeysReturned(d, fail, k) == Returned(d, fail, k, k.acc, k.res)
ReadLineReturned(d, fail, r) ==
    Returned(d, fail, r, <<PullRec(r, pos[d], None, fail)>>, Item(r.kind, NoEvent, r.raw))

\* a call of EventsAndRaw::next by the caller
EventsAndRawNext(d) ==
    /\ api = "events_and_raw"
    /\ Len(out[d]) < MaxPulls
    /\ \E short \in ShortScripts(pos[d]), fail \in FailScripts(pos[d]) :
         EventsAndRawReturned(d, fail,
             EventsAndRaw_next(input, pos[d], self_leftover(d), short, fail))

\* a call of Events::next
EventsNext(d) ==
    /\ api = "events"
    /\ Len(out[d]) < MaxPulls
    /\ \E short \in ShortScripts(pos[d]), fail \in FailScripts(pos[d]) :
         EventsReturned(d, fail,
             EventsAndRaw_next(input, pos[d], self_leftover(d), short, fail))

\* a call of Keys::next
KeysNext(d) ==
    /\ api = "keys"
    /\ Len(out[d]) < MaxPulls
    /\ \E short \in ShortScripts(pos[d]), fail \in FailScripts(pos[d]) :
         KeysReturned(d, fail,
             Keys_next(input, pos[d], self_leftover(d), short, fail, <<>>))

\* a call of read_line
ReadLineCall(d) ==
    /\ api = "read_line"
    /\ Len(out[d]) < MaxPulls
    /\ \E fail \in FailScripts(pos[d]) :
         ReadLineReturned(d, fail, read_line(input, pos[d], fail, <<>>))

\* read_passwd returned r, the failure of into_raw_mode: nothing was read
RawModeReturned(d, r) ==
    /\ errs < MaxErrs
    /\ errs' = errs + 1
    /\ pulls' = [pulls EXCEPT ![d] = Append(@, PullRec(r, pos[d], None, {}))]
    /\ out' = [out EXCEPT ![d] = Append(@, Item(r.kind, NoEvent, r.raw))]
    /\ UNCHANGED <<input, srcKind, api, pos, leftover, termVars>>

\* a call of read_passwd
ReadPasswdCall(d) ==
    /\ api = "read_passwd"
    /\ Len(out[d]) < MaxPulls
    /\ \E raw \in IntoRawMode :
         IF raw = "err"
         THEN RawModeReturned(d, read_passwd(input, pos[d], {}, raw))
         ELSE \E fail \in FailScripts(pos[d]) :
                  ReadLineReturned(d, fail, read_passwd(input, pos[d], fail, raw))

Next ==
    \/ \E d \in Decoders : EventsAndRawNext(d)
    \/ \E d \in Decoders : EventsNext(d)
    \/ \E d \in Decoders : KeysNext(d)
    \/ \E d \in Decoders : ReadLineCall(d)
    \/ \E d \in Decoders : ReadPasswdCall(d)

Spec == Init /\ [][Next]_vars

SpecReplay == InitReplay /\ [][Next]_vars

(* ------------------------ MouseTerminal: its life ----------------------- *)
\* a writer W owned by the caller, no reader in play
InitMouse ==
    /\ api = "MouseTerminal"
    /\ srcKind = "slice"
    /\ input = <<>>
    /\ InitDecoders({})
    /\ NoMouseTerminal

readVars == <<input, srcKind, api, pos, leftover, pulls, out, errs>>

\* MouseTerminal::from(W): write_all(ENTER_MOUSE_SEQUENCE).unwrap(), k bytes
\* of it accepted; the unwrap panics when write_all failed
MouseTerminal_from ==
    /\ life = "none"
    /\ \E k \in 0..Len(ENTER_MOUSE_SEQUENCE) :
         /\ term' = term \o write_all(ENTER_MOUSE_SEQUENCE, k)
         /\ life' = IF k = Len(ENTER_MOUSE_SEQUENCE) THEN "live" ELSE "fromPanicked"
    /\ UNCHANGED <<calls, readVars>>

\* Write::write(buf): self.term.write(buf), its answer returned
MouseTerminal_write ==
    /\ life = "live"
    /\ Len(calls) < MaxCalls
    /\ \E buf \in WriteBufs : \E ret \in WriteAnswers(buf) :
         /\ term' = term \o Accepted(buf, ret)
         /\ calls' = Append(calls, CallRec("write", buf, ret))
    /\ UNCHANGED <<life, readVars>>

\* Write::flush(): self.term.flush(), its answer returned
MouseTerminal_flush ==
    /\ life = "live"
    /\ Len(calls) < MaxCalls
    /\ \E ret \in {0, Fail} :
         /\ term' = term \o Flushed(ret)
         /\ calls' = Append(calls, CallRec("flush", <<>>, ret))
    /\ UNCHANGED <<life, readVars>>

\* Drop::drop: write_all(EXIT_MOUSE_SEQUENCE).unwrap(), k bytes of it accepted
MouseTerminal_drop ==
    /\ life = "live"
    /\ \E k \in 0..Len(EXIT_MOUSE_SEQUENCE) :
         /\ term' = term \o write_all(EXIT_MOUSE_SEQUENCE, k)
         /\ life' = IF k = Len(EXIT_MOUSE_SEQUENCE) THEN "dropped" ELSE "dropPanicked"
    /\ UNCHANGED <<calls, readVars>>

NextMouse ==
    \/ MouseTerminal_from
    \/ MouseTerminal_write
    \/ MouseTerminal_flush
    \/ MouseTerminal_drop

SpecMouse == InitMouse /\ [][NextMouse]_vars

(* ================================ claims ================================ *)
EventApis == {"events_and_raw", "events", "keys"}
Last(q) == q[Len(q)]
Front(q) == SubSeq(q, 1, Len(q) - 1)
EofItem == Item("eof", NoEvent, <<>>)
KeyItem(name, a) == Item("ev", KeyEv(name, a), <<>>)
RECURSIVE ConcatRaw(_)
ConcatRaw(q) == IF q = <<>> THEN <<>> ELSE ConcatRaw(Front(q)) \o Last(q).raw
\* where in the input the raw capture of an inner call starts: at the
\* leftover byte if one was held, else at the source position
RawStart(r) == IF r.lo0 # None THEN r.p0 - 1 ELSE r.p0

\* C1: byte-exactness. When no read failed and EventsAndRaw has returned
\* end-of-stream, the raw captures returned so far, concatenated in order,
\* are the input.
C1_ByteExact ==
    \A d \in Decoders :
        (api = "events_and_raw" /\ errs = 0 /\ out[d] # <<>> /\ Last(out[d]).kind = "eof")
            => ConcatRaw(out[d]) = input
C1_Witness ==
    /\ api = "events_and_raw"
    /\ srcKind = "stream"
    /\ errs = 0
    /\ Len(input) = 3
    /\ out[1] # <<>>
    /\ Last(out[1]).kind = "eof"
    /\ \E i \in DOMAIN pulls[1] : pulls[1][i].path = "leftover"
    /\ \E i \in DOMAIN pulls[1] : pulls[1][i].ev.tag = "Unsupported"
    /\ ConcatRaw(out[1]) = input

\* C2: leftover recovery and ordering. After a two-byte read whose decode took
\* only the first byte, the second byte is the leftover, and the next call
\* returns an event whose raw capture starts with it; every raw capture is the
\* input from where the one before ended. The keys of b"\x1Bayo\x7F\x1B[D"
\* are Alt('a'), Char('y'), Char('o'), Backspace, Left, then end-of-stream.
TestKeysExpected ==
    <<KeyItem("Alt", 97), KeyItem("Char", 121), KeyItem("Char", 111),
      KeyItem("Backspace", 0), KeyItem("Left", 0)>>
C2_LeftoverOrder ==
    \A d \in Decoders :
        /\ \A i \in DOMAIN pulls[d] :
             LET r == pulls[d][i] IN
             /\ (r.path = "read2" /\ Len(r.raw) = 1) =>
                  /\ r.lo1 = input[r.p0 + 2]
                  /\ i < Len(pulls[d]) =>
                       /\ pulls[d][i + 1].path = "leftover"
                       /\ pulls[d][i + 1].kind = "ev"
                       /\ pulls[d][i + 1].raw[1] = input[r.p0 + 2]
             /\ (api \in EventApis /\ r.kind = "ev") =>
                  r.raw = SubSeq(input, RawStart(r) + 1, RawStart(r) + Len(r.raw))
             /\ (api \in EventApis /\ r.kind = "ev" /\ i < Len(pulls[d])
                   /\ pulls[d][i + 1].kind = "ev") =>
                  RawStart(pulls[d][i + 1]) = RawStart(r) + Len(r.raw)
        /\ (api = "keys" /\ srcKind = "slice" /\ input = TestKeys) =>
             \A i \in DOMAIN out[d] :
                 out[d][i] = IF i <= 5 THEN TestKeysExpected[i] ELSE EofItem
C2_Witness ==
    /\ api = "keys"
    /\ input = TestKeys
    /\ Len(out[1]) = 6
    /\ out[1][6] = EofItem
    /\ \E i \in DOMAIN pulls[1] : pulls[1][i].path = "leftover"

\* C3: standalone Escape. A call whose read returns exactly one byte, 0x1B,
\* yields Key(Esc) with raw capture [0x1B], takes no further byte and leaves
\* the leftover empty; the input [0x1B], read without failure, yields
\* Key(Esc) and then end-of-stream.
C3_StandaloneEscape ==
    \A d \in Decoders :
        /\ \A i \in DOMAIN pulls[d] :
             LET r == pulls[d][i] IN
             (r.path = "read1" /\ input[r.p0 + 1] = ESC) =>
                 /\ r.kind = "ev"
                 /\ r.ev = KeyEv("Esc", 0)
                 /\ r.raw = <<ESC>>
                 /\ r.p1 = r.p0 + 1
                 /\ r.lo1 = None
        /\ (api \in EventApis /\ input = <<ESC>> /\ errs = 0) =>
             \A i \in DOMAIN out[d] :
                 /\ out[d][i].kind = (IF i = 1 THEN "ev" ELSE "eof")
                 /\ out[d][i].ev = (IF i = 1 THEN KeyEv("Esc", 0) ELSE NoEvent)
C3_Witness ==
    /\ api = "keys"
    /\ input = <<ESC>>
    /\ Len(out[1]) = 2
    /\ out[1][1] = KeyItem("Esc", 0)
    /\ out[1][2] = EofItem
    /\ pulls[1][1].path = "read1"

DecoderAnswer(r) ==
    event_parse_event(input[RawStart(r) + 1], SubSeq(input, RawStart(r) + 2, Len(input)))
ThroughDecoder(r) ==
    /\ r.kind = "ev"
    /\ r.nfail = 0
    /\ ~(r.path = "read1" /\ input[r.p0 + 1] = ESC)
C5_UnsupportedFallback ==
    \A d \in Decoders :
        /\ api \in EventApis =>
             \A i \in DOMAIN pulls[d] :
                 LET r == pulls[d][i] IN
                 /\ (ThroughDecoder(r) /\ ~DecoderAnswer(r).ok) => r.ev.tag = "Unsupported"
                 /\ r.ev.tag = "Unsupported" =>
                      /\ r.kind = "ev"
                      /\ r.ev = Unsupported(r.raw)
                      /\ r.raw = SubSeq(input, RawStart(r) + 1, RawStart(r) + Len(r.raw))
                      /\ r.p1 - (IF r.lo1 # None THEN 1 ELSE 0) = RawStart(r) + Len(r.raw)
                      /\ (i < Len(pulls[d]) /\ pulls[d][i + 1].kind = "ev") =>
                           pulls[d][i + 1].raw[1] = input[RawStart(r) + Len(r.raw) + 1]
        /\ (api \in EventApis /\ srcKind = "slice" /\ input = TestUnsupported) =>
             \A i \in DOMAIN pulls[d] :
                 /\ i = 1 => pulls[d][i].ev = Unsupported(<<ESC, 91, 0>>)
                 /\ i = 2 => pulls[d][i].ev = KeyEv("Char", 98)
                 /\ i > 2 => pulls[d][i].kind = "eof"
C5_Witness ==
    /\ api = "events"
    /\ input = TestUnsupported
    /\ Len(out[1]) = 3
    /\ out[1][1] = Item("ev", Unsupported(<<ESC, 91, 0>>), <<>>)
    /\ out[1][2] = KeyItem("Char", 98)
    /\ out[1][3] = EofItem

\* C6: I/O failure propagation. Every call in which a read of the source
\* failed, the two-byte read or a continuation read, returns a failure and no
\* event.
C6_IoFailurePropagates ==
    \A d \in Decoders :
        api \in EventApis =>
            \A i \in DOMAIN pulls[d] :
                pulls[d][i].nfail > 0 => pulls[d][i].kind = "err"

\* C7: end-of-stream is terminal. After a call has returned end-of-stream,
\* which it does after a read of zero bytes, no later call returns an event,
\* and every later call whose read does not fail returns end-of-stream.
C7_EofTerminal ==
    \A d \in Decoders :
        api \in EventApis =>
            /\ \A i \in DOMAIN pulls[d] :
                 pulls[d][i].kind = "eof" =>
                     /\ pulls[d][i].path = "read0"
                     /\ \A j \in DOMAIN pulls[d] :
                          j > i =>
                              /\ pulls[d][j].kind # "ev"
                              /\ pulls[d][j].nfail = 0 => pulls[d][j].kind = "eof"
            /\ \A i \in DOMAIN out[d] :
                 out[d][i].kind = "eof" =>
                     \A j \in DOMAIN out[d] : j > i => out[d][j].kind \in {"eof", "err"}
C7_Witness ==
    /\ api = "keys"
    /\ Len(input) >= 2
    /\ Len(out[1]) >= 4
    /\ out[1][1].kind = "ev"
    /\ out[1][2].kind = "eof"
    /\ out[1][3].kind = "eof"
    /\ out[1][4].kind = "eof"

\* C8: key-only projection. What Keys has returned is what the inner calls
\* returned, in order, with the events that are no key left out: each key,
\* each failure, each end-of-stream; and a call of Keys returns at the first
\* inner call that gives one of these. Events returns every inner result.
IsKeysItem(r) == r.kind \in {"err", "eof"} \/ (r.kind = "ev" /\ r.ev.tag = "Key")
RECURSIVE KeyProjection(_)
KeyProjection(ps) ==
    IF ps = <<>> THEN <<>>
    ELSE IF IsKeysItem(Last(ps))
         THEN Append(KeyProjection(Front(ps)), Item(Last(ps).kind, Last(ps).ev, <<>>))
         ELSE KeyProjection(Front(ps))
C8_KeysProjection ==
    \A d \in Decoders :
        /\ api = "keys" =>
             /\ out[d] = KeyProjection(pulls[d])
             /\ pulls[d] # <<>> => IsKeysItem(Last(pulls[d]))
        /\ api = "events" =>
             /\ Len(out[d]) = Len(pulls[d])
             /\ \A i \in DOMAIN out[d] :
                  out[d][i] = Item(pulls[d][i].kind, pulls[d][i].ev, <<>>)
C8_Witness ==
    /\ api = "keys"
    /\ Len(out[1]) >= 3
    /\ Len(pulls[1]) > Len(out[1])
    /\ \E i \in DOMAIN pulls[1] : pulls[1][i].ev.tag = "Unsupported"
    /\ \E i \in DOMAIN out[1] : out[1][i].kind = "err"
    /\ \E i \in DOMAIN out[1] : out[1][i].kind = "ev"
    /\ Last(out[1]).kind = "eof"

\* C9: deterministic re-decoding. Two fresh decoders over one in-memory
\* buffer return the same results call for call, however their calls
\* interleave, and two inner calls made at the same source position with the
\* same leftover return the same result; no failure comes from outside the
\* buffer (the writer of read_passwd enters raw mode).
SameResult(r1, r2) ==
    /\ r1.kind = r2.kind
    /\ r1.ev = r2.ev
    /\ r1.raw = r2.raw
    /\ r1.p1 = r2.p1
    /\ r1.lo1 = r2.lo1
RECURSIVE Collected(_)
Collected(seg) ==
    IF seg = <<>> THEN <<>>
    ELSE IF Last(seg) = DEL THEN Pop(Collected(Front(seg)))
    ELSE Append(Collected(Front(seg)), Last(seg))
\* the input bytes a call of read_line took
Taken(r) == SubSeq(input, r.p0 + 1, r.p1)
Stops(c) == c \in {0, 3, 4, 10, 13}
\* the call took bytes up to the first byte that stops it, and no further
StopsAtFirst(r) == \A k \in 1..(Len(Taken(r)) - 1) : ~Stops(Taken(r)[k])
Aborted(r) == Taken(r) # <<>> /\ Last(Taken(r)) \in {3, 4}
Completed(r) == Taken(r) # <<>> /\ Last(Taken(r)) \in {10, 13}
RanOut(r) == r.p1 = Len(input) /\ (Taken(r) = <<>> \/ ~Stops(Last(Taken(r))))
LineOrInvalid(r, line) ==
    IF IsUtf8(line) THEN r.kind = "line" /\ r.raw = line ELSE r.kind = "invalid"
Dec(n) == IF n < 10 THEN <<48 + n>> ELSE <<48 + (n \div 10), 48 + (n % 10)>>
SgrSeq(x, y, fin) == <<27, 91, 60, 48, 59>> \o Dec(x) \o <<59>> \o Dec(y) \o <<59, fin>>
NumericSeq(cb, x, y) == <<27, 91>> \o Dec(cb) \o <<59>> \o Dec(x) \o <<59>> \o Dec(y) \o <<77>>
IsX10Seq(raw) == Len(raw) = 6 /\ SubSeq(raw, 1, 3) = <<27, 91, 77>>
Cells == {2, 4, 10, 11}
TestMouseExpected ==
    <<MouseEv("Press", "WheelUp", 2, 4), MouseEv("Press", "Left", 2, 4),
      MouseEv("Press", "Left", 2, 4), MouseEv("Release", "", 2, 4),
      MouseEv("Release", "", 2, 4)>>
TestClickExpected ==
    <<MouseEv("Press", "Left", 10, 11), MouseEv("Press", "Left", 10, 11),
      MouseEv("Press", "Left", 10, 11), MouseEv("Release", "", 10, 11),
      MouseEv("Release", "", 10, 11)>>
MouseExpected(buf) == IF buf = TestMouse THEN TestMouseExpected ELSE TestClickExpected
C11_MixedMouse ==
    \A d \in Decoders :
        (api \in EventApis /\ srcKind = "slice") =>
            /\ \A i \in DOMAIN pulls[d] :
                 LET r == pulls[d][i] IN
                 r.kind = "ev" =>
                     /\ (IsX10Seq(r.raw) /\ r.raw[5] >= 32 /\ r.raw[6] >= 32) =>
                          /\ r.ev.tag = "Mouse"
                          /\ r.ev.x = r.raw[5] - 32
                          /\ r.ev.y = r.raw[6] - 32
                     /\ \A x \in Cells, y \in Cells :
                          /\ r.raw \in {SgrSeq(x, y, 77), NumericSeq(32, x, y)} =>
                               r.ev = MouseEv("Press", "Left", x, y)
                          /\ r.raw \in {SgrSeq(x, y, 109), NumericSeq(35, x, y)} =>
                               r.ev = MouseEv("Release", "", x, y)
            /\ input \in MouseTests =>
                 \A i \in DOMAIN pulls[d] :
                     IF i <= 5
                     THEN pulls[d][i].kind = "ev" /\ pulls[d][i].ev = MouseExpected(input)[i]
                     ELSE pulls[d][i].kind = "eof"
C11_Witness ==
    /\ api = "events"
    /\ input = TestMouse
    /\ Len(out[1]) = 6
    /\ out[1][1] = Item("ev", MouseEv("Press", "WheelUp", 2, 4), <<>>)
    /\ pulls[1][2].raw = SgrSeq(2, 4, 77)
    /\ pulls[1][3].raw = NumericSeq(32, 2, 4)
    /\ out[1][2].ev = out[1][3].ev
    /\ pulls[1][4].raw = SgrSeq(2, 4, 109)
    /\ pulls[1][5].raw = NumericSeq(35, 2, 4)
    /\ out[1][4].ev = out[1][5].ev
    /\ out[1][6] = EofItem

\* C12: the leftover is consulted first and cleared. A call that starts with
\* a leftover byte returns an event whose raw capture leads with that byte,
\* makes no two-byte read (it takes from the source exactly the continuation
\* bytes of the capture), and leaves the leftover empty; so no two consecutive
\* calls take the leftover branch.
C12_LeftoverFirst ==
    \A d \in Decoders :
        /\ \A i \in DOMAIN pulls[d] :
             LET r == pulls[d][i] IN
             /\ r.lo0 # None =>
                  /\ r.path = "leftover"
                  /\ r.kind = "ev"
                  /\ r.raw[1] = r.lo0
                  /\ r.lo0 = input[r.p0]
                  /\ r.p1 = r.p0 + Len(r.raw) - 1
                  /\ r.lo1 = None
             /\ r.path = "leftover" => r.lo0 # None
             /\ (r.path = "leftover" /\ i < Len(pulls[d])) => pulls[d][i + 1].path # "leftover"
        /\ (pulls[d] # <<>> /\ Last(pulls[d]).path = "leftover") => leftover[d] = None
C12_Witness ==
    /\ api = "events_and_raw"
    /\ srcKind = "stream"
    /\ input = <<97, 27, 91>>
    /\ Len(pulls[1]) = 3
    /\ pulls[1][1].lo1 = 27
    /\ pulls[1][2].path = "leftover"
    /\ pulls[1][2].raw = <<27, 91>>
    /\ pulls[1][2].lo1 = None
    /\ pulls[1][3].path = "read0"
    /\ leftover[1] = None

\* C13: Escape at the end of the input. An ESC byte that is the last byte of
\* the input and leads a call of its own, no read having failed in that call,
\* yields Key(Esc) with raw capture [0x1B], whether it was the only byte of a
\* read or the leftover of the two-byte read before; 'a' 0x1B yields
\* Key(Char('a')), Key(Esc), then end-of-stream.
LeadsFinalEsc(r) ==
    /\ r.kind = "ev"
    /\ r.nfail = 0
    /\ RawStart(r) = Len(input) - 1
    /\ input[Len(input)] = ESC
C13_FinalEscape ==
    \A d \in Decoders :
        api \in EventApis =>
            /\ \A i \in DOMAIN pulls[d] :
                 LET r == pulls[d][i] IN
                 LeadsFinalEsc(r) =>
                     /\ r.path \in {"read1", "leftover"}
                     /\ r.ev = KeyEv("Esc", 0)
                     /\ r.raw = <<ESC>>
                     /\ r.p1 = Len(input)
                     /\ r.lo1 = None
            /\ (input = <<97, ESC>> /\ errs = 0) =>
                 \A i \in DOMAIN pulls[d] :
                     /\ i = 1 => pulls[d][i].ev = KeyEv("Char", 97)
                     /\ i = 2 => pulls[d][i].ev = KeyEv("Esc", 0)
                     /\ i > 2 => pulls[d][i].kind = "eof"
C13_Witness ==
    /\ api = "events_and_raw"
    /\ srcKind = "slice"
    /\ input = <<97, ESC>>
    /\ Len(out[1]) = 3
    /\ pulls[1][1].path = "read2"
    /\ pulls[1][2].path = "leftover"
    /\ out[1][1] = Item("ev", KeyEv("Char", 97), <<97>>)
    /\ out[1][2] = Item("ev", KeyEv("Esc", 0), <<ESC>>)
    /\ out[1][3] = EofItem

\* C14: independence from read chunking.
\* the events a decoder returns for buf when every read is filled and none fails
RECURSIVE RefDecode(_, _, _)
RefStep(buf, r) ==
    IF r.kind = "eof" THEN <<>>
    ELSE <<Item(r.kind, r.ev, r.raw)>> \o RefDecode(buf, r.pos, r.lo)
RefDecode(buf, p, lo) == RefStep(buf, EventsAndRaw_next(buf, p, lo, {}, {}))
\* the events among the inner results ps, in order
RECURSIVE EventsOf(_)
EventsOf(ps) ==
    IF ps = <<>> THEN <<>>
    ELSE IF Last(ps).kind = "ev"
         THEN Append(EventsOf(Front(ps)), Item("ev", Last(ps).ev, Last(ps).raw))
         ELSE EventsOf(Front(ps))
IsPrefix(a, b) == Len(a) <= Len(b) /\ a = SubSeq(b, 1, Len(a))
\* the events returned so far are those of the filled reads, all of them once
\* end-of-stream has been returned
SameAsFilled(ps) ==
    /\ IsPrefix(EventsOf(ps), RefDecode(input, 0, None))
    /\ (ps # <<>> /\ Last(ps).kind = "eof") => EventsOf(ps) = RefDecode(input, 0, None)
\* a read returned ESC alone although input follows it
LoneEsc(r) == r.path = "read1" /\ input[r.p0 + 1] = ESC /\ r.p0 + 1 < Len(input)
\* the claim as stated: when no read fails, the events are the same however
\* the source splits the bytes across reads
C14_ChunkingAsStated ==
    \A d \in Decoders :
        (api \in EventApis /\ errs = 0) => SameAsFilled(pulls[d])
\* C14, amended: when no read fails and no read returns an ESC byte alone
\* while input follows it, the events are the same however the source splits
\* the bytes across reads.
C14_Chunking ==
    \A d \in Decoders :
        (api \in EventApis /\ errs = 0 /\ \A i \in DOMAIN pulls[d] : ~LoneEsc(pulls[d][i]))
            => SameAsFilled(pulls[d])
C14_Witness ==
    /\ api = "events_and_raw"
    /\ srcKind = "stream"
    /\ errs = 0
    /\ input = <<97, ESC, 91>>
    /\ Len(pulls[1]) = 3
    /\ pulls[1][1].path = "read1"
    /\ pulls[1][2].path = "read2"
    /\ pulls[1][3].kind = "eof"
    /\ RefDecode(input, 0, None) =
           <<Item("ev", KeyEv("Char", 97), <<97>>), Item("ev", Unsupported(<<ESC, 91>>), <<ESC, 91>>)>>
    /\ EventsOf(pulls[1]) = RefDecode(input, 0, None)

\* C15: read_line backspace.
\* the bytes seg with every backspace applied in order: 0x7F removes the byte
\* collected last, does nothing when none is collected, and is not stored
RECURSIVE Erased(_)
ErasedLast(line, c) ==
    IF c # DEL THEN Append(line, c)
    ELSE IF line = <<>> THEN <<>>
    ELSE Front(line)
Erased(seg) == IF seg = <<>> THEN <<>> ELSE ErasedLast(Erased(Front(seg)), Last(seg))
BackspaceApplied(r) ==
    r.kind = "line" =>
        /\ \A k \in DOMAIN r.raw : r.raw[k] # DEL
        /\ Completed(r) => r.raw = Erased(Front(Taken(r)))
        /\ RanOut(r) => r.raw = Erased(Taken(r))
BackspaceTest(d) ==
    input = TestBackspace =>
        \A i \in DOMAIN pulls[d] :
            pulls[d][i].path = "read_line" =>
                /\ pulls[d][i].kind = "line"
                /\ pulls[d][i].raw =
                       (IF pulls[d][i].p0 = 0 THEN <<116, 104, 32, 102, 105, 114>> ELSE <<>>)
\* the value read_line returns at the position of the call r, no read failing
SameAsReadLine(r) ==
    /\ r.kind = read_line(input, r.p0, {}, <<>>).kind
    /\ r.raw = read_line(input, r.p0, {}, <<>>).raw
    /\ r.p1 = read_line(input, r.p0, {}, <<>>).pos
\* the claim as stated: read_passwd returns what read_line returns
C15_BackspaceAsStated ==
    \A d \in Decoders :
        /\ api \in LineApis =>
             /\ BackspaceTest(d)
             /\ \A i \in DOMAIN pulls[d] : BackspaceApplied(pulls[d][i])
        /\ api = "read_passwd" =>
             \A i \in DOMAIN pulls[d] : pulls[d][i].nfail = 0 => SameAsReadLine(pulls[d][i])
\* C15, amended: the line read_line returns is the input up to the
\* terminator with every backspace applied in order; "the\x7f first\x7f\x7f"
\* gives "th fir". read_passwd returns what read_line returns on the same
\* input when the writer enters raw mode; when it does not, read_passwd
\* returns that failure and reads nothing.
C15_Backspace ==
    \A d \in Decoders :
        /\ api \in LineApis =>
             /\ BackspaceTest(d)
             /\ \A i \in DOMAIN pulls[d] : BackspaceApplied(pulls[d][i])
        /\ api = "read_passwd" =>
             \A i \in DOMAIN pulls[d] :
                 LET r == pulls[d][i] IN
                 /\ (r.path = "read_line" /\ r.nfail = 0) => SameAsReadLine(r)
                 /\ r.path = "into_raw_mode" => (r.kind = "err" /\ r.p1 = r.p0)
C15_Witness ==
    /\ api = "read_passwd"
    /\ input = TestBackspace
    /\ Len(out[1]) = 2
    /\ pulls[1][1].path = "into_raw_mode"
    /\ out[1][1].kind = "err"
    /\ pulls[1][2].path = "read_line"
    /\ out[1][2] = Item("line", NoEvent, <<116, 104, 32, 102, 105, 114>>)
    /\ pos[1] = Len(input)

\* C16: no byte is dropped at the end of the stream. A call returns
\* end-of-stream only when it started with the leftover empty and its read
\* returned zero bytes; a call that starts with a leftover byte and the
\* source exhausted returns an event whose raw capture starts with that byte,
\* and no end-of-stream has been returned before it.
C16_NoByteDropped ==
    \A d \in Decoders :
        api \in EventApis =>
            /\ \A i \in DOMAIN pulls[d] :
                 LET r == pulls[d][i] IN
                 /\ r.kind = "eof" =>
                      /\ r.lo0 = None
                      /\ r.path = "read0"
                      /\ r.p0 = Len(input)
                      /\ r.p1 = r.p0
                 /\ (r.lo0 # None /\ r.p0 = Len(input)) =>
                      /\ r.kind = "ev"
                      /\ r.raw[1] = r.lo0
                      /\ r.raw[1] = input[Len(input)]
                      /\ \A j \in 1..(i - 1) : pulls[d][j].kind # "eof"
            /\ (leftover[d] # None /\ pos[d] = Len(input)) =>
                 \A i \in DOMAIN out[d] : out[d][i].kind # "eof"
C16_Witness ==
    /\ api = "events_and_raw"
    /\ input = <<97, 195>>
    /\ Len(pulls[1]) = 3
    /\ pulls[1][1].lo1 = 195
    /\ pulls[1][1].p1 = Len(input)
    /\ pulls[1][2].lo0 = 195
    /\ out[1][2] = Item("ev", Unsupported(<<195>>), <<195>>)
    /\ out[1][3] = EofItem

\* C17: read-ahead bound. Between calls, the bytes taken from the source so
\* far are the raw captures returned so far, concatenated in order, followed
\* by the leftover byte if one is held: at most one byte has been read and
\* not reported, and that byte is the leftover.
Held(d) == IF leftover[d] # None THEN <<leftover[d]>> ELSE <<>>
C17_ReadAhead ==
    \A d \in Decoders :
        api \in EventApis =>
            /\ SubSeq(input, 1, pos[d]) = ConcatRaw(pulls[d]) \o Held(d)
            /\ pos[d] - Len(ConcatRaw(pulls[d])) \in {0, 1}
            /\ api = "events_and_raw" => ConcatRaw(out[d]) = ConcatRaw(pulls[d])
C17_Witness ==
    /\ api = "events_and_raw"
    /\ srcKind = "stream"
    /\ input = <<97, 97, 97>>
    /\ Len(out[1]) = 2
    /\ pulls[1][1].path = "read1"
    /\ pulls[1][2].path = "read2"
    /\ pos[1] = 3
    /\ leftover[1] = 97
    /\ ConcatRaw(out[1]) = <<97, 97>>

\* C18: progress and termination. Every event returned comes with a raw
\* capture that is not empty and starts with the event's leading byte, the
\* first input byte no earlier call reported, so the input left to report
\* shrinks with every event; on an input of n bytes at most n events are
\* returned, and when no read fails every call after the n-th returns
\* end-of-stream; Keys makes, over all its calls, at most n inner calls more
\* than it has returned results.
\* the number of input bytes reported once the inner call r has returned
Reported(r) == r.p1 - (IF r.lo1 # None THEN 1 ELSE 0)
C18_Progress ==
    \A d \in Decoders :
        api \in EventApis =>
            /\ \A i \in DOMAIN pulls[d] :
                 LET r == pulls[d][i] IN
                 /\ r.kind = "ev" =>
                      /\ r.raw # <<>>
                      /\ RawStart(r) < Len(input)
                      /\ r.raw[1] = input[RawStart(r) + 1]
                      /\ Reported(r) >= RawStart(r) + 1
                      /\ Reported(r) = Len(ConcatRaw(SubSeq(pulls[d], 1, i)))
                 /\ (errs = 0 /\ i > Len(input)) => r.kind = "eof"
            /\ Len(EventsOf(pulls[d])) <= Len(input)
            /\ api = "keys" => Len(pulls[d]) <= Len(out[d]) + Len(EventsOf(pulls[d]))
C18_Witness ==
    /\ api = "keys"
    /\ input = TestUnsupported
    /\ errs = 0
    /\ Len(out[1]) = 4
    /\ Len(pulls[1]) = 5
    /\ pulls[1][1].raw = <<ESC, 91, 0>>
    /\ out[1][1] = KeyItem("Char", 98)
    /\ out[1][2] = EofItem
    /\ pulls[1][5].kind = "eof"

\* C19: MouseTerminal bracketing.
\* the decimal digits of a mode number of four digits
ModeDigits(n) ==
    <<48 + (n \div 1000), 48 + ((n \div 100) % 10), 48 + ((n \div 10) % 10), 48 + (n % 10)>>
\* ESC [ ? n h sets the private mode n, ESC [ ? n l resets it
SetMode(n) == <<27, 91, 63>> \o ModeDigits(n) \o <<104>>
ResetMode(n) == <<27, 91, 63>> \o ModeDigits(n) \o <<108>>
MouseEnable == SetMode(1000) \o SetMode(1002) \o SetMode(1015) \o SetMode(1006)
MouseDisable == ResetMode(1006) \o ResetMode(1015) \o ResetMode(1002) \o ResetMode(1000)
\* what the caller's calls cs put into W, by the answers the caller got
RECURSIVE Forwarded(_)
ForwardedCall(c) ==
    IF c.ret = Fail THEN <<>>
    ELSE IF c.op = "flush" THEN <<FlushRec>>
    ELSE IF c.ret = 0 THEN <<>>
    ELSE <<WriteRec(SubSeq(c.buf, 1, c.ret))>>
Forwarded(cs) == IF cs = <<>> THEN <<>> ELSE Forwarded(Front(cs)) \o ForwardedCall(Last(cs))
\* the rest of term after its first n records is at most one write of a
\* proper part of seq
PartOf(rest, seq) ==
    \/ rest = <<>>
    \/ /\ Len(rest) = 1
       /\ rest[1].op = "write"
       /\ Len(rest[1].bytes) < Len(seq)
       /\ rest[1].bytes = SubSeq(seq, 1, Len(rest[1].bytes))
Bracketed ==
    /\ life = "none" => term = <<>>
    /\ life = "live" => term = <<WriteRec(MouseEnable)>> \o Forwarded(calls)
    /\ life = "dropped" =>
           term = <<WriteRec(MouseEnable)>> \o Forwarded(calls) \o <<WriteRec(MouseDisable)>>
\* the claim as stated: a MouseTerminal, once dropped, has written the
\* disable sequence after the caller's writes
C19_BracketingAsStated ==
    /\ Bracketed
    /\ life = "dropPanicked" =>
           term = <<WriteRec(MouseEnable)>> \o Forwarded(calls) \o <<WriteRec(MouseDisable)>>
\* C19, amended: creating a MouseTerminal writes the enable sequence (modes
\* 1000, 1002, 1015, 1006 set) to the wrapped writer before any caller write,
\* and dropping it writes the disable sequence (the four modes reset, in
\* reverse order) after all caller writes, each once, when the writer accepts
\* them; writes and flushes in between reach the writer as the caller made
\* them. When the writer fails, creation or drop panics with at most a part
\* of its sequence written.
C19_Bracketing ==
    /\ Bracketed
    /\ life = "fromPanicked" => (calls = <<>> /\ PartOf(term, MouseEnable))
    /\ life = "dropPanicked" =>
           /\ Len(term) >= 1 + Len(Forwarded(calls))
           /\ SubSeq(term, 1, 1 + Len(Forwarded(calls))) =
                  <<WriteRec(MouseEnable)>> \o Forwarded(calls)
           /\ PartOf(SubSeq(term, 2 + Len(Forwarded(calls)), Len(term)), MouseDisable)
C19_Witness ==
    /\ life = "dropped"
    /\ calls = <<CallRec("write", <<97, 98>>, 1), CallRec("flush", <<>>, 0)>>
    /\ term = <<WriteRec(MouseEnable), WriteRec(<<97>>), FlushRec, WriteRec(MouseDisable)>>

=============================================================================
